---- MODULE Spec2Model ----
(***************************************************************************)
(* Model of the gestao-gastos REST API (server index: src/unnamed/part_000, *)
(* persistence shim: src/server/src/db.js).                                *)
(*                                                                         *)
(* The store is the two tables created by initDb.  Every Express handler   *)
(* is an async function: the code between two `await db.query/db.run`      *)
(* calls runs without interruption, and each awaited statement is executed *)
(* by the database as one atomic step.  A handler is therefore modelled as *)
(* a sequence of actions, one per awaited statement together with the      *)
(* synchronous code that follows it, and the actions of different requests *)
(* interleave freely (the pooled backend performs a network round trip per *)
(* statement; db.js opens no transaction).                                 *)
(*                                                                         *)
(* Values: a date string "YYYY-MM-DD" is the sequence <<Y, M, D>> and a   *)
(* month key "YYYY-MM" the sequence <<Y, M>>, so that `date LIKE 'M%'` is  *)
(* the prefix test the SQL performs.  A request body is a function from    *)
(* the field names present in the JSON object to their values; a field     *)
(* that is absent from its DOMAIN is `undefined` in the handler.           *)
(***************************************************************************)
EXTENDS Integers, Sequences, FiniteSets, TLC

\* ---------------------------------------------------------------- bounds
\* Number of requests that can be in flight at the same time.
NumReq == 2
\* Cap of the expenses AUTOINCREMENT / SERIAL counter (rows ever inserted).
MaxExpenseId == 2
\* Cap of the budgets AUTOINCREMENT / SERIAL counter.
MaxBudgetId == 2

Reqs == 1..NumReq
ExpenseIds == 1..MaxExpenseId

\* ---------------------------------------------------------------- inputs
Jan == <<2024, 1>>
Feb == <<2024, 2>>
Months == {Jan, Feb}

FullExpenseBodies ==
  { [description |-> "cafe", amount |-> 1, category |-> "alimentacao", date |-> <<2024, 1, 5>>],
    [description |-> "bus",  amount |-> 2, category |-> "transporte",  date |-> <<2024, 1, 5>>],
    [description |-> "cafe", amount |-> 1, category |-> "alimentacao", date |-> <<2024, 2, 1>>] }

\* The body b without field f (the JSON object simply lacks the key).
Without(b, f) == [k \in DOMAIN b \ {f} |-> b[k]]

ExpenseFields == {"description", "amount", "category", "date"}

BodyCafe == [description |-> "cafe", amount |-> 1, category |-> "alimentacao", date |-> <<2024, 1, 5>>]

\* Bodies lacking one field each, the empty object, and a body whose amount
\* is the number 0 (present, but falsy in JavaScript).
PartialExpenseBodies ==
  { Without(BodyCafe, f) : f \in ExpenseFields }
    \cup { Without(Without(Without(Without(BodyCafe, "date"), "category"), "amount"), "description") }
    \cup { [BodyCafe EXCEPT !.amount = 0] }

ExpenseBodies == FullExpenseBodies \cup PartialExpenseBodies

\* req.query of GET /api/expenses: month and category, each absent, empty
\* or a value.
ExpenseQueries ==
  LET months == {<<>>, Jan, Feb}
      categories == {"", "alimentacao", "transporte"}
  IN  {<<>>}
      \cup {[month |-> m] : m \in months}
      \cup {[category |-> c] : c \in categories}
      \cup {[month |-> m, category |-> c] : m \in months, c \in categories}

BudgetBodies ==
  { [month |-> Jan, amount |-> 1],
    [month |-> Jan, amount |-> 2],
    [month |-> Feb, amount |-> 0],
    Without([month |-> Jan, amount |-> 1], "month"),
    Without([month |-> Jan, amount |-> 1], "amount") }

\* ----------------------------------------------------------------- state
VARIABLES
  expenses,     \* table expenses: set of rows [id, description, amount, category, date]
  expensesSeq,  \* last id handed out by the expenses id generator
  budgets,      \* table budgets: set of rows [id, month, amount]
  budgetsSeq,   \* last id handed out by the budgets id generator
  req,          \* req[r]: the request handled in slot r (handler position, locals, response)
  usePostgres,  \* db.js: DATABASE_URL is set, the pooled engine is used
  pgPool,       \* db.js: 0 (null) or the number of the Pool object
  sqliteDb,     \* db.js: 0 (null) or the number of the sql.js Database object
  engines,      \* engine objects (Pool, Database) constructed so far
  schema,       \* the tables that exist in the engine's database
  disk,         \* the flat file DB_PATH: the database image last written, if any
  call,         \* call[c]: the db.js call (initDb, query, run) made by caller c
  selectedMonth,   \* dashboard: the month chosen in the month selector
  filterCategory,  \* dashboard: the category chosen in the filter ("" is all)
  currentPage,     \* dashboard: the page of the expense list
  loading,         \* dashboard: the spinner is shown instead of the page
  shownExpenses,   \* dashboard: its state `expenses`, the list last received
  shownBudget,     \* dashboard: its state `budget`
  ops              \* dashboard: ops[k], an asynchronous operation in flight

\* The state of the persistence shim.
dbVars == <<usePostgres, pgPool, sqliteDb, engines, schema, disk, call>>

\* The state of the dashboard.
uiVars == <<selectedMonth, filterCategory, currentPage, loading, shownExpenses,
            shownBudget, ops>>

vars == <<expenses, expensesSeq, budgets, budgetsSeq, req, dbVars, uiVars>>

\* res.json(undefined): a response without a record.
NoBody == [undefined |-> TRUE]
NoResponse == [status |-> 0, body |-> NoBody]

IdleReq ==
  [kind |-> "none", pc |-> "idle", id |-> 0, month |-> <<>>, body |-> <<>>,
   lastId |-> 0, total |-> 0, budget |-> 0, byCategory |-> <<>>, resp |-> NoResponse,
   error |-> "", responses |-> 0]

\* A slot accepts a new request when it handles none or has responded.
Free(r) == req[r].pc \in {"idle", "done"}

\* res.status(s).json(b) ends the handler: the request and its response
\* remain, the handler's locals are gone.  responses counts the responses
\* sent for the request; error is the exception the handler caught, if any.
Respond(r0, s, b) ==
  [IdleReq EXCEPT !.kind = r0.kind, !.id = r0.id, !.month = r0.month, !.body = r0.body,
                  !.pc = "done", !.resp = [status |-> s, body |-> b],
                  !.error = r0.error, !.responses = r0.responses + 1]

ErrorBody(msg) == [error |-> msg]

\* Faulty variant: the awaited call is outside the try block; the rejection
\* is unhandled and the request gets no response.
Catch_Unhandled(r0, msg) == [r0 EXCEPT !.pc = "hung", !.error = msg]

\* catch (error) { res.status(500).json({ error: error.message }) }
Catch(r0, msg) == Respond([r0 EXCEPT !.error = msg], 500, ErrorBody(msg))

\* The callers of db.js: 0 is the startup call db.initDb() of the server,
\* the others are the requests in flight.
Callers == {0} \cup Reqs

NoCall == [op |-> "none", pc |-> "idle", body |-> <<>>, lastId |-> 0, error |-> ""]

\* The flat file does not exist.
NoFile == [exists |-> FALSE, expenses |-> {}, expensesSeq |-> 0, budgets |-> {}, budgetsSeq |-> 0]

Tables == {"expenses", "budgets"}

\* Asynchronous operations of the dashboard that can be in flight at once.
MaxOps == 2

\* Expenses created in the dashboard when its pagination is examined.
MaxUiExpenses == 11

Ops == 1..MaxOps

NoOp == [kind |-> "none", pc |-> "idle", month |-> <<>>, category |-> "", id |-> 0,
         gotExpenses |-> FALSE, gotBudget |-> FALSE]

\* The dashboard is not open: its state is the initial state of App.
NoDashboard ==
  /\ selectedMonth = Jan
  /\ filterCategory = ""
  /\ currentPage = 1
  /\ loading = TRUE
  /\ shownExpenses = <<>>
  /\ shownBudget = 0
  /\ ops = [k \in Ops |-> NoOp]

\* The server after startup on the pooled engine: initDb has created the
\* Pool and the tables, which are empty; no request is in flight.
Init ==
  /\ expenses = {}
  /\ expensesSeq = 0
  /\ budgets = {}
  /\ budgetsSeq = 0
  /\ req = [r \in Reqs |-> IdleReq]
  /\ usePostgres = TRUE
  /\ pgPool = 1
  /\ sqliteDb = 0
  /\ engines = 1
  /\ schema = Tables
  /\ disk = NoFile
  /\ call = [c \in Callers |-> NoCall]
  /\ NoDashboard

\* ------------------------------------------------------ persistence shim
\* rows[0] of a result set that holds at most one row; undefined when empty.
First(rows) == IF rows = {} THEN NoBody ELSE CHOOSE x \in rows : TRUE

\* date LIKE 'month%': the month key is a prefix of the date.
Like(date, month) ==
  /\ Len(month) <= Len(date)
  /\ SubSeq(date, 1, Len(month)) = month

\* SELECT ... FROM expenses WHERE id = ?
SelectExpenseById(id) == {e \in expenses : e.id = id}

\* Faulty variant: the WHERE clause is left out.
SelectExpensesLike_NoFilter(month) == expenses

\* SELECT ... FROM expenses WHERE date LIKE ?
SelectExpensesLike(month) == {e \in expenses : Like(e.date, month)}

\* SELECT ... FROM budgets WHERE month = ?
SelectBudgetByMonth(month) == {b \in budgets : b.month = month}

\* A bound parameter that is undefined cannot be stored: sql.js refuses to
\* bind it, pg sends NULL and every column is NOT NULL.  run() rethrows.
HasUndefined(b, fields) == fields \ DOMAIN b # {}

\* created_at DEFAULT now: the time is read from a logical clock that
\* advances with every expense inserted.
Clock == expensesSeq + 1

\* INSERT INTO expenses (description, amount, category, date): the row gets
\* the next id of the generator and the current time as created_at.
InsertExpenseRow(b) ==
  [id |-> expensesSeq + 1, description |-> b.description, amount |-> b.amount,
   category |-> b.category, date |-> b.date, created_at |-> Clock]

\* UPDATE expenses SET description, amount, category, date WHERE id = ?
UpdateExpenseRows(id, b) ==
  { IF e.id = id
      THEN [e EXCEPT !.description = b.description, !.amount = b.amount,
                     !.category = b.category, !.date = b.date]
      ELSE e : e \in expenses }

\* DELETE FROM expenses WHERE id = ?
DeleteExpenseRows(id) == {e \in expenses : e.id # id}

\* Faulty variant: the schema declares month without UNIQUE.
UniqueMonthViolated_None(month) == FALSE

\* budgets.month is UNIQUE: an INSERT of a month that has a row is rejected.
UniqueMonthViolated(month) == \E b \in budgets : b.month = month

\* INSERT INTO budgets (month, amount).  The id generator advances with the
\* rows inserted (a rejected INSERT on the pooled engine would skip one id;
\* nothing reads the value of a budget id).
InsertBudgetRow(b) == [id |-> budgetsSeq + 1, month |-> b.month, amount |-> b.amount]

\* UPDATE budgets SET amount = ? WHERE month = ?
UpdateBudgetRows(month, amount) ==
  { IF b.month = month THEN [b EXCEPT !.amount = amount] ELSE b : b \in budgets }

\* SUM(amount) over a result set (one term per row).
RECURSIVE SumAmount(_)
SumAmount(rows) ==
  IF rows = {} THEN 0
  ELSE LET e == CHOOSE x \in rows : TRUE
       IN  e.amount + SumAmount(rows \ {e})

\* COALESCE(SUM(amount), 0): SUM over no rows is NULL, replaced by 0.
CoalesceSum(rows) == IF rows = {} THEN 0 ELSE SumAmount(rows)

\* SELECT category, SUM(amount) AS total ... GROUP BY category
GroupByCategory(rows) ==
  { [category |-> c, total |-> SumAmount({e \in rows : e.category = c})] :
      c \in {e.category : e \in rows} }

\* Faulty variant: ORDER BY total ASC.
OrderedByTotalDesc_Asc(groups) ==
  { s \in [1..Cardinality(groups) -> groups] :
      /\ \A i, j \in DOMAIN s : i # j => s[i] # s[j]
      /\ \A i, j \in DOMAIN s : i < j => s[i].total <= s[j].total }

\* ORDER BY total DESC: every ordering of the groups with non-increasing
\* totals (the order of groups with equal totals is up to the engine).
OrderedByTotalDesc(groups) ==
  { s \in [1..Cardinality(groups) -> groups] :
      /\ \A i, j \in DOMAIN s : i # j => s[i] # s[j]
      /\ \A i, j \in DOMAIN s : i < j => s[i].total >= s[j].total }

\* x || 0 on a number.
OrZero(x) == x

\* Text comparison a < b of two dates: at the first position where they
\* differ a has the smaller value, or a is a proper prefix of b.
DateLess(a, b) ==
  \/ \E i \in 1..Len(a) :
       /\ i <= Len(b)
       /\ a[i] < b[i]
       /\ \A j \in 1..(i - 1) : a[j] = b[j]
  \/ /\ Len(a) < Len(b)
     /\ \A j \in 1..Len(a) : a[j] = b[j]

\* Faulty variant: ORDER BY id DESC alone.
ListedBefore_IdOnly(e1, e2) == e1.id > e2.id

\* ORDER BY date DESC, id DESC: row e1 is listed before row e2.
ListedBefore(e1, e2) ==
  \/ DateLess(e2.date, e1.date)
  \/ e1.date = e2.date /\ e1.id > e2.id

\* The rows of a result set in the order of ORDER BY date DESC, id DESC
\* (ids are unique, so there is one such sequence): the row listed before
\* all others, then the rest in order.
RECURSIVE OrderByDateDescIdDesc(_)
OrderByDateDescIdDesc(rows) ==
  IF rows = {} THEN <<>>
  ELSE LET e == CHOOSE x \in rows : \A y \in rows \ {x} : ListedBefore(x, y)
       IN  <<e>> \o OrderByDateDescIdDesc(rows \ {e})

\* if (month), if (category): the query parameter was sent and is not empty.
HasParam(q, k) == k \in DOMAIN q /\ q[k] # (IF k = "month" THEN <<>> ELSE "")

\* SELECT * FROM expenses WHERE 1=1 [AND date LIKE ?] [AND category = ?]
SelectExpensesFiltered(q) ==
  {e \in expenses :
     /\ HasParam(q, "month") => Like(e.date, q.month)
     /\ HasParam(q, "category") => e.category = q.category}

\* ---------------------------------------------------- expense handlers
\* GET /api/expenses/:id
GetExpense(r, id) ==
  /\ Free(r)
  /\ LET rows == SelectExpenseById(id)
         r0 == [IdleReq EXCEPT !.kind = "getExpense", !.id = id]
     IN  req' = [req EXCEPT ![r] =
                   IF rows = {} THEN Respond(r0, 404, ErrorBody("Despesa nao encontrada"))
                   ELSE Respond(r0, 200, First(rows))]
  /\ UNCHANGED <<expenses, expensesSeq, budgets, budgetsSeq, dbVars, uiVars>>

\* !description || !amount || !category || !date
NotDescription(b) == "description" \notin DOMAIN b \/ b.description = ""
NotAmount(b) == "amount" \notin DOMAIN b \/ b.amount = 0
NotCategory(b) == "category" \notin DOMAIN b \/ b.category = ""
NotDate(b) == "date" \notin DOMAIN b \/ b.date = <<>>
\* Faulty variant: the check of date is forgotten.
InvalidExpense_NoDate(b) == NotDescription(b) \/ NotAmount(b) \/ NotCategory(b)
InvalidExpense(b) == NotDescription(b) \/ NotAmount(b) \/ NotCategory(b) \/ NotDate(b)

\* Inserts that have been accepted and not yet executed.
PendingExpenseInserts == Cardinality({q \in Reqs : req[q].pc = "post_insert"})

\* POST /api/expenses: the validation, up to the awaited INSERT.
PostExpenseBegin(r, b) ==
  /\ Free(r)
  /\ expensesSeq + PendingExpenseInserts < MaxExpenseId
  /\ LET r0 == [IdleReq EXCEPT !.kind = "postExpense", !.body = b]
     IN  req' = [req EXCEPT ![r] =
                   IF InvalidExpense(b)
                     THEN Respond(r0, 400, ErrorBody("Todos os campos sao obrigatorios"))
                     ELSE [r0 EXCEPT !.pc = "post_insert"]]
  /\ UNCHANGED <<expenses, expensesSeq, budgets, budgetsSeq, dbVars, uiVars>>

\* POST /api/expenses: db.run(INSERT); result.lastId is the new row's id.
PostExpenseInsert(r) ==
  /\ req[r].pc = "post_insert"
  /\ IF HasUndefined(req[r].body, ExpenseFields)
       THEN /\ req' = [req EXCEPT ![r] = Catch(@, "SQL Error")]
            /\ UNCHANGED <<expenses, expensesSeq>>
       ELSE /\ expenses' = expenses \cup {InsertExpenseRow(req[r].body)}
            /\ expensesSeq' = expensesSeq + 1
            /\ req' = [req EXCEPT ![r].pc = "post_select", ![r].lastId = expensesSeq + 1]
  /\ UNCHANGED <<budgets, budgetsSeq, dbVars, uiVars>>

\* POST /api/expenses: the row is read back and sent with status 201.
PostExpenseSelect(r) ==
  /\ req[r].pc = "post_select"
  /\ req' = [req EXCEPT ![r] = Respond(@, 201, First(SelectExpenseById(req[r].lastId)))]
  /\ UNCHANGED <<expenses, expensesSeq, budgets, budgetsSeq, dbVars, uiVars>>

\* PUT /api/expenses/:id: the existence check.
PutExpenseCheck(r, id, b) ==
  /\ Free(r)
  /\ LET r0 == [IdleReq EXCEPT !.kind = "putExpense", !.id = id, !.body = b]
     IN  req' = [req EXCEPT ![r] =
                   IF SelectExpenseById(id) = {}
                     THEN Respond(r0, 404, ErrorBody("Despesa nao encontrada"))
                     ELSE [r0 EXCEPT !.pc = "put_update"]]
  /\ UNCHANGED <<expenses, expensesSeq, budgets, budgetsSeq, dbVars, uiVars>>

\* PUT /api/expenses/:id: db.run(UPDATE) with the body's fields as they are.
PutExpenseUpdate(r) ==
  /\ req[r].pc = "put_update"
  /\ IF HasUndefined(req[r].body, ExpenseFields)
       THEN /\ req' = [req EXCEPT ![r] = Catch(@, "SQL Error")]
            /\ UNCHANGED expenses
       ELSE /\ expenses' = UpdateExpenseRows(req[r].id, req[r].body)
            /\ req' = [req EXCEPT ![r].pc = "put_select"]
  /\ UNCHANGED <<expensesSeq, budgets, budgetsSeq, dbVars, uiVars>>

\* PUT /api/expenses/:id: the row is read back and sent.
PutExpenseSelect(r) ==
  /\ req[r].pc = "put_select"
  /\ req' = [req EXCEPT ![r] = Respond(@, 200, First(SelectExpenseById(req[r].id)))]
  /\ UNCHANGED <<expenses, expensesSeq, budgets, budgetsSeq, dbVars, uiVars>>

\* Faulty variant: the DELETE handler runs its statement without the existence check.
DeleteExpenseCheck_NoCheck(r, id) ==
  /\ Free(r)
  /\ req' = [req EXCEPT ![r] = [IdleReq EXCEPT !.kind = "deleteExpense", !.id = id,
                                               !.pc = "delete_run"]]
  /\ UNCHANGED <<expenses, expensesSeq, budgets, budgetsSeq, dbVars, uiVars>>

\* Faulty variant: the 404 is sent without return and the handler goes on.
DeleteExpenseCheck_NoReturn(r, id) ==
  /\ Free(r)
  /\ LET r0 == [IdleReq EXCEPT !.kind = "deleteExpense", !.id = id]
     IN  req' = [req EXCEPT ![r] =
                   IF SelectExpenseById(id) = {}
                     THEN [Respond(r0, 404, ErrorBody("Despesa nao encontrada"))
                             EXCEPT !.pc = "delete_run"]
                     ELSE [r0 EXCEPT !.pc = "delete_run"]]
  /\ UNCHANGED <<expenses, expensesSeq, budgets, budgetsSeq, dbVars, uiVars>>

\* DELETE /api/expenses/:id: the existence check.
DeleteExpenseCheck(r, id) ==
  /\ Free(r)
  /\ LET r0 == [IdleReq EXCEPT !.kind = "deleteExpense", !.id = id]
     IN  req' = [req EXCEPT ![r] =
                   IF SelectExpenseById(id) = {}
                     THEN Respond(r0, 404, ErrorBody("Despesa nao encontrada"))
                     ELSE [r0 EXCEPT !.pc = "delete_run"]]
  /\ UNCHANGED <<expenses, expensesSeq, budgets, budgetsSeq, dbVars, uiVars>>

\* DELETE /api/expenses/:id: db.run(DELETE) and the confirmation.
DeleteExpenseRun(r) ==
  /\ req[r].pc = "delete_run"
  /\ expenses' = DeleteExpenseRows(req[r].id)
  /\ req' = [req EXCEPT ![r] = Respond(@, 200, [message |-> "Despesa eliminada"])]
  /\ UNCHANGED <<expensesSeq, budgets, budgetsSeq, dbVars, uiVars>>

\* ----------------------------------------------------- budget handlers
\* Faulty variant: a month without a row is answered like a missing expense.
GetBudget_NotFound(r, month) ==
  /\ Free(r)
  /\ LET rows == {b \in budgets : b.month = month}
         r0 == [IdleReq EXCEPT !.kind = "getBudget", !.month = month]
     IN  req' = [req EXCEPT ![r] =
                   IF rows = {} THEN Respond(r0, 404, ErrorBody("Orcamento nao encontrado"))
                   ELSE Respond(r0, 200, CHOOSE x \in rows : TRUE)]
  /\ UNCHANGED <<expenses, expensesSeq, budgets, budgetsSeq, dbVars, uiVars>>

\* GET /api/budgets/:month: a month without a row gets a synthetic record.
GetBudget(r, month) ==
  /\ Free(r)
  /\ LET rows == SelectBudgetByMonth(month)
         r0 == [IdleReq EXCEPT !.kind = "getBudget", !.month = month]
     IN  req' = [req EXCEPT ![r] =
                   IF rows = {} THEN Respond(r0, 200, [month |-> month, amount |-> 0])
                   ELSE Respond(r0, 200, First(rows))]
  /\ UNCHANGED <<expenses, expensesSeq, budgets, budgetsSeq, dbVars, uiVars>>

\* !month || amount === undefined
InvalidBudget(b) ==
  \/ "month" \notin DOMAIN b
  \/ b.month = <<>>
  \/ "amount" \notin DOMAIN b

\* Budget inserts that have been chosen and not yet executed.
PendingBudgetInserts == Cardinality({q \in Reqs : req[q].pc = "budget_insert"})

\* Faulty variant: the upsert always inserts.
PostBudgetCheck_AlwaysInsert(r, b) ==
  /\ Free(r)
  /\ budgetsSeq + PendingBudgetInserts < MaxBudgetId
  /\ LET r0 == [IdleReq EXCEPT !.kind = "postBudget", !.body = b]
     IN  req' = [req EXCEPT ![r] =
                   IF InvalidBudget(b)
                     THEN Respond(r0, 400, ErrorBody("Mes e valor sao obrigatorios"))
                     ELSE [r0 EXCEPT !.month = b.month, !.pc = "budget_insert"]]
  /\ UNCHANGED <<expenses, expensesSeq, budgets, budgetsSeq, dbVars, uiVars>>

\* POST /api/budgets: the validation and the existence check, which picks
\* the statement to run.
PostBudgetCheck(r, b) ==
  /\ Free(r)
  /\ budgetsSeq + PendingBudgetInserts < MaxBudgetId
  /\ LET r0 == [IdleReq EXCEPT !.kind = "postBudget", !.body = b]
     IN  req' = [req EXCEPT ![r] =
                   IF InvalidBudget(b)
                     THEN Respond(r0, 400, ErrorBody("Mes e valor sao obrigatorios"))
                   ELSE IF SelectBudgetByMonth(b.month) # {}
                     THEN [r0 EXCEPT !.month = b.month, !.pc = "budget_update"]
                     ELSE [r0 EXCEPT !.month = b.month, !.pc = "budget_insert"]]
  /\ UNCHANGED <<expenses, expensesSeq, budgets, budgetsSeq, dbVars, uiVars>>

\* POST /api/budgets: db.run(UPDATE budgets SET amount WHERE month).
PostBudgetUpdate(r) ==
  /\ req[r].pc = "budget_update"
  /\ budgets' = UpdateBudgetRows(req[r].body.month, req[r].body.amount)
  /\ req' = [req EXCEPT ![r].pc = "budget_select"]
  /\ UNCHANGED <<expenses, expensesSeq, budgetsSeq, dbVars, uiVars>>

\* POST /api/budgets: db.run(INSERT INTO budgets); the UNIQUE constraint on
\* month makes the statement throw when the month has a row by now.
PostBudgetInsert(r) ==
  /\ req[r].pc = "budget_insert"
  /\ IF UniqueMonthViolated(req[r].body.month)
       THEN /\ req' = [req EXCEPT ![r] =
                         Catch(@, "UNIQUE constraint failed: budgets.month")]
            /\ UNCHANGED <<budgets, budgetsSeq>>
       ELSE /\ budgets' = budgets \cup {InsertBudgetRow(req[r].body)}
            /\ budgetsSeq' = budgetsSeq + 1
            /\ req' = [req EXCEPT ![r].pc = "budget_select"]
  /\ UNCHANGED <<expenses, expensesSeq, dbVars, uiVars>>

\* POST /api/budgets: the row is read back and sent.
PostBudgetSelect(r) ==
  /\ req[r].pc = "budget_select"
  /\ req' = [req EXCEPT ![r] = Respond(@, 200, First(SelectBudgetByMonth(req[r].body.month)))]
  /\ UNCHANGED <<expenses, expensesSeq, budgets, budgetsSeq, dbVars, uiVars>>

\* ------------------------------------------------------- stats handler
\* GET /api/stats/:month, first query: COALESCE(SUM(amount), 0) AS total.
StatsTotal(r, month) ==
  /\ Free(r)
  /\ req' = [req EXCEPT ![r] =
               [IdleReq EXCEPT !.kind = "stats", !.month = month, !.pc = "stats_budget",
                               !.total = CoalesceSum(SelectExpensesLike(month))]]
  /\ UNCHANGED <<expenses, expensesSeq, budgets, budgetsSeq, dbVars, uiVars>>

\* Faulty variant: a month without a budget row is given one of amount 0.
StatsBudget_CreatesDefault(r) ==
  /\ req[r].pc = "stats_budget"
  /\ LET rows == SelectBudgetByMonth(req[r].month)
     IN  /\ req' = [req EXCEPT ![r].pc = "stats_category",
                               ![r].budget = IF rows = {} THEN 0 ELSE OrZero(First(rows).amount)]
         /\ IF rows = {} /\ budgetsSeq < MaxBudgetId
              THEN /\ budgets' = budgets \cup {[id |-> budgetsSeq + 1, month |-> req[r].month,
                                                amount |-> 0]}
                   /\ budgetsSeq' = budgetsSeq + 1
              ELSE UNCHANGED <<budgets, budgetsSeq>>
  /\ UNCHANGED <<expenses, expensesSeq, dbVars, uiVars>>

\* Second query: SELECT amount FROM budgets WHERE month = ?
StatsBudget(r) ==
  /\ req[r].pc = "stats_budget"
  /\ LET rows == SelectBudgetByMonth(req[r].month)
     IN  req' = [req EXCEPT ![r].pc = "stats_category",
                            ![r].budget = IF rows = {} THEN 0 ELSE OrZero(First(rows).amount)]
  /\ UNCHANGED <<expenses, expensesSeq, budgets, budgetsSeq, dbVars, uiVars>>

\* Third query: the per-category subtotals, largest first.
StatsCategory(r) ==
  /\ req[r].pc = "stats_category"
  /\ \E s \in OrderedByTotalDesc(GroupByCategory(SelectExpensesLike(req[r].month))) :
       req' = [req EXCEPT ![r].pc = "stats_count", ![r].byCategory = s]
  /\ UNCHANGED <<expenses, expensesSeq, budgets, budgetsSeq, dbVars, uiVars>>

\* Fourth query, COUNT(*), and the response composed of the four results.
StatsCount(r) ==
  /\ req[r].pc = "stats_count"
  /\ LET count == Cardinality(SelectExpensesLike(req[r].month))
     IN  req' = [req EXCEPT ![r] =
                   Respond(@, 200, [month |-> req[r].month,
                                    total |-> OrZero(req[r].total),
                                    budget |-> req[r].budget,
                                    byCategory |-> req[r].byCategory,
                                    count |-> OrZero(count)])]
  /\ UNCHANGED <<expenses, expensesSeq, budgets, budgetsSeq, dbVars, uiVars>>

\* ------------------------------------------------------- list handlers
\* GET /api/expenses?month=&category=: one awaited query.
ListExpenses(r, q) ==
  /\ Free(r)
  /\ req' = [req EXCEPT ![r] =
               Respond([IdleReq EXCEPT !.kind = "list", !.body = q], 200,
                       OrderByDateDescIdDesc(SelectExpensesFiltered(q)))]
  /\ UNCHANGED <<expenses, expensesSeq, budgets, budgetsSeq, dbVars, uiVars>>

\* The budget rows in the order of ORDER BY month DESC (months are unique).
OrderByMonthDesc(rows) ==
  CHOOSE s \in [1..Cardinality(rows) -> rows] :
    \A i, j \in DOMAIN s : i < j => DateLess(s[j].month, s[i].month)

\* GET /api/budgets: one awaited query.
ListBudgets(r) ==
  /\ Free(r)
  /\ req' = [req EXCEPT ![r] =
               Respond([IdleReq EXCEPT !.kind = "listBudgets"], 200,
                       OrderByMonthDesc(budgets))]
  /\ UNCHANGED <<expenses, expensesSeq, budgets, budgetsSeq, dbVars, uiVars>>

\* ------------------------------------------------- persistence failures
\* The message of an error raised by the engine's driver (connection lost,
\* disk full).
DriverError == "Connection terminated unexpectedly"

\* The requests whose first awaited call is db.query(): any of these can
\* arrive and have that call reject.
FirstQueryRequests ==
  {[IdleReq EXCEPT !.kind = "list", !.body = q] : q \in ExpenseQueries}
    \cup {[IdleReq EXCEPT !.kind = "getExpense", !.id = id] : id \in ExpenseIds}
    \cup {[IdleReq EXCEPT !.kind = "putExpense", !.id = id, !.body = BodyCafe] : id \in ExpenseIds}
    \cup {[IdleReq EXCEPT !.kind = "deleteExpense", !.id = id] : id \in ExpenseIds}
    \cup {[IdleReq EXCEPT !.kind = "listBudgets"]}
    \cup {[IdleReq EXCEPT !.kind = "getBudget", !.month = m] : m \in Months}
    \cup {[IdleReq EXCEPT !.kind = "postBudget", !.body = b] :
            b \in {x \in BudgetBodies : ~InvalidBudget(x)}}
    \cup {[IdleReq EXCEPT !.kind = "stats", !.month = m] : m \in Months}

\* A request arrives and its first db.query() rejects: query() rethrows, the
\* handler's catch block answers.
FirstQueryThrows(r, r0) ==
  /\ Free(r)
  /\ req' = [req EXCEPT ![r] = Catch(r0, DriverError)]
  /\ UNCHANGED <<expenses, expensesSeq, budgets, budgetsSeq, dbVars, uiVars>>

\* The awaited db.query() or db.run() of a handler in flight rejects and
\* has had no effect: the handler's catch block answers.
StatementThrows(r) ==
  /\ req[r].pc \notin {"idle", "done"}
  /\ req' = [req EXCEPT ![r] = Catch(@, DriverError)]
  /\ UNCHANGED <<expenses, expensesSeq, budgets, budgetsSeq, dbVars, uiVars>>

\* ----------------------------------------------------- persistence shim
\* The process has just started on a fresh installation: the module-level
\* variables of db.js hold null, DATABASE_URL is set or not, there is no
\* flat file and the database has no tables.
InitDbLayer ==
  /\ expenses = {}
  /\ expensesSeq = 0
  /\ budgets = {}
  /\ budgetsSeq = 0
  /\ req = [r \in Reqs |-> IdleReq]
  /\ usePostgres \in BOOLEAN
  /\ pgPool = 0
  /\ sqliteDb = 0
  /\ engines = 0
  /\ schema = {}
  /\ disk = NoFile
  /\ call = [c \in Callers |-> NoCall]
  /\ NoDashboard

\* Faulty variant: new SQL.Database() without the file's contents.
LoadDb_Empty == NoFile

\* fs.existsSync(DB_PATH) ? new SQL.Database(fs.readFileSync(DB_PATH))
\*                         : new SQL.Database()
LoadDb == IF disk.exists THEN disk ELSE NoFile

\* Faulty variant: saveDb returns without writing.
SaveDb_NoWrite(e, es, b, bs) == disk

\* saveDb: the export of the whole in-memory database replaces the file.
SaveDb(e, es, b, bs) ==
  [exists |-> TRUE, expenses |-> e, expensesSeq |-> es, budgets |-> b, budgetsSeq |-> bs]

\* initDb returns to its caller: query() and run() go on to their statement,
\* the startup call is finished.
Returned(c0) == [c0 EXCEPT !.pc = IF c0.op = "initDb" THEN "done" ELSE "stmt"]

\* run() calls chosen and not yet executed.
PendingRuns ==
  Cardinality({c \in Callers : call[c].op = "run" /\ call[c].pc \notin {"idle", "done"}})

\* The ids given out so far, in the database in use or in the file that the
\* next Database will be created from.
IdsUsed == IF disk.expensesSeq > expensesSeq THEN disk.expensesSeq ELSE expensesSeq

\* Caller c calls initDb: the server at startup (c = 0), or query() or run()
\* on behalf of a request, once the server has started.  The code up to the
\* first await: an engine that exists is returned; else the Pool is created
\* at once, the Database only after initSqlJs() has resolved.
InitDbEnter(c, op, b) ==
  /\ IF c = 0 THEN call[c].pc = "idle" /\ op = "initDb"
              ELSE call[c].pc \in {"idle", "done"} /\ call[0].pc # "idle" /\ op # "initDb"
  /\ op = "run" => IdsUsed + PendingRuns < MaxExpenseId
  /\ LET c0 == [NoCall EXCEPT !.op = op, !.body = IF op = "run" THEN b ELSE <<>>]
     IN  IF usePostgres
           THEN IF pgPool # 0
                  THEN /\ call' = [call EXCEPT ![c] = Returned(c0)]
                       /\ UNCHANGED <<pgPool, engines>>
                  ELSE /\ pgPool' = engines + 1
                       /\ engines' = engines + 1
                       /\ call' = [call EXCEPT ![c] = [c0 EXCEPT !.pc = "pg_expenses"]]
           ELSE /\ call' = [call EXCEPT ![c] =
                              IF sqliteDb # 0 THEN Returned(c0)
                              ELSE [c0 EXCEPT !.pc = "sqlite_await"]]
                /\ UNCHANGED <<pgPool, engines>>
  /\ UNCHANGED <<uiVars, expenses, expensesSeq, budgets, budgetsSeq, req,
                 usePostgres, sqliteDb, schema, disk>>

\* await pgPool.query(CREATE TABLE IF NOT EXISTS expenses ...)
PgCreateExpenses(c) ==
  /\ call[c].pc = "pg_expenses"
  /\ schema' = schema \cup {"expenses"}
  /\ call' = [call EXCEPT ![c].pc = "pg_budgets"]
  /\ UNCHANGED <<uiVars, expenses, expensesSeq, budgets, budgetsSeq, req,
                 usePostgres, pgPool, sqliteDb, engines, disk>>

\* await pgPool.query(CREATE TABLE IF NOT EXISTS budgets ...)
PgCreateBudgets(c) ==
  /\ call[c].pc = "pg_budgets"
  /\ schema' = schema \cup {"budgets"}
  /\ call' = [call EXCEPT ![c].pc = "pg_indexes"]
  /\ UNCHANGED <<uiVars, expenses, expensesSeq, budgets, budgetsSeq, req,
                 usePostgres, pgPool, sqliteDb, engines, disk>>

\* The three awaited CREATE INDEX IF NOT EXISTS, then return pgPool.
PgCreateIndexes(c) ==
  /\ call[c].pc = "pg_indexes"
  /\ call' = [call EXCEPT ![c] = Returned(@)]
  /\ UNCHANGED <<uiVars, expenses, expensesSeq, budgets, budgetsSeq, req,
                 usePostgres, pgPool, sqliteDb, engines, schema, disk>>

\* initSqlJs() has resolved: in one synchronous run the Database is created
\* from the file if there is one, the tables and indexes are created if
\* missing, and saveDb writes the file.
SqliteCreate(c) ==
  /\ call[c].pc = "sqlite_await"
  /\ sqliteDb' = engines + 1
  /\ engines' = engines + 1
  /\ expenses' = LoadDb.expenses
  /\ expensesSeq' = LoadDb.expensesSeq
  /\ budgets' = LoadDb.budgets
  /\ budgetsSeq' = LoadDb.budgetsSeq
  /\ schema' = Tables
  /\ disk' = SaveDb(expenses', expensesSeq', budgets', budgetsSeq')
  /\ call' = [call EXCEPT ![c] = Returned(@)]
  /\ UNCHANGED <<uiVars, req, usePostgres, pgPool>>

\* The message of the engine for a statement on a table that does not exist.
NoSuchTable == "relation \"expenses\" does not exist"

\* query(), after await initDb(): the caller's SELECT on expenses runs on
\* the engine; an error of the engine is rethrown.
ExecQuery(c) ==
  /\ call[c].pc = "stmt"
  /\ call[c].op = "query"
  /\ call' = [call EXCEPT ![c].pc = "done",
                          ![c].error = IF "expenses" \in schema THEN "" ELSE NoSuchTable]
  /\ UNCHANGED <<uiVars, expenses, expensesSeq, budgets, budgetsSeq, req,
                 usePostgres, pgPool, sqliteDb, engines, schema, disk>>

\* run(), after await initDb(): the caller's INSERT INTO expenses runs on the
\* engine; on the embedded engine saveDb follows in the same synchronous
\* run, and lastId is read.  An error of the engine is rethrown.
ExecRun(c) ==
  /\ call[c].pc = "stmt"
  /\ call[c].op = "run"
  /\ IF "expenses" \notin schema
       THEN /\ call' = [call EXCEPT ![c].pc = "done", ![c].error = NoSuchTable]
            /\ UNCHANGED <<expenses, expensesSeq, disk>>
       ELSE /\ expenses' = expenses \cup {InsertExpenseRow(call[c].body)}
            /\ expensesSeq' = expensesSeq + 1
            /\ call' = [call EXCEPT ![c].pc = "done", ![c].lastId = expensesSeq + 1]
            /\ disk' = IF ~usePostgres /\ sqliteDb # 0
                         THEN SaveDb(expenses', expensesSeq', budgets, budgetsSeq)
                         ELSE disk
  /\ UNCHANGED <<uiVars, budgets, budgetsSeq, req, usePostgres, pgPool, sqliteDb, engines, schema>>

\* The process ends and is started again: the module-level variables are
\* null again and the calls in progress are gone.  The in-memory database
\* of the embedded engine is gone with the process, its file stays; the
\* database of the pooled engine stays.
Restart ==
  /\ call[0].pc # "idle"
  /\ call' = [c \in Callers |-> NoCall]
  /\ pgPool' = 0
  /\ sqliteDb' = 0
  /\ engines' = 0
  /\ IF usePostgres
       THEN UNCHANGED <<expenses, expensesSeq, budgets, budgetsSeq, schema>>
       ELSE /\ expenses' = {}
            /\ expensesSeq' = 0
            /\ budgets' = {}
            /\ budgetsSeq' = 0
            /\ schema' = {}
  /\ UNCHANGED <<uiVars, req, usePostgres, disk>>

\* ------------------------------------------------------------ dashboard
\* The dashboard in API mode (the health check succeeds), the only client of
\* a server that handles each of its requests in one step.
ITEMS_PER_PAGE == 10

\* The forms of the expense modal: description, parsed amount, category and
\* date; the last one has no amount.
UiForms ==
  { BodyCafe,
    [description |-> "bus", amount |-> 2, category |-> "transporte", date |-> <<2024, 2, 1>>],
    [description |-> "cafe", amount |-> 0, category |-> "alimentacao", date |-> <<2024, 1, 5>>] }

\* The options of the category filter used here: all, and one category.
UiCategories == {"", "alimentacao"}

\* The amounts typed into the budget modal.
BudgetInputs == 0..2

\* URLSearchParams: month and category are appended when they are not empty.
UiQuery(m, c) ==
  IF m # <<>> /\ c # "" THEN [month |-> m, category |-> c]
  ELSE IF m # <<>> THEN [month |-> m]
  ELSE IF c # "" THEN [category |-> c]
  ELSE <<>>

\* The body of the response to GET /api/expenses?month=m&category=c.
ApiExpenses(m, c) == OrderByDateDescIdDesc(SelectExpensesFiltered(UiQuery(m, c)))

\* data.amount || 0 of the response to GET /api/budgets/m.
ApiBudget(m) ==
  LET rows == SelectBudgetByMonth(m)
  IN  IF rows = {} THEN 0 ELSE OrZero(First(rows).amount)

\* The lowest slot without an operation in flight.
HasFreeOp == \E k \in Ops : ops[k].kind = "none"
FreeOp == CHOOSE k \in Ops : ops[k].kind = "none" /\ \A j \in 1..(k - 1) : ops[j].kind # "none"

\* loadData for the selection (m, c), up to its await of the health check.
LoadOp(m, c) == [NoOp EXCEPT !.kind = "load", !.pc = "health", !.month = m, !.category = c]

\* The dashboard has been mounted on a started server: the first loadData
\* is awaiting the health check.
InitUi ==
  /\ expenses = {}
  /\ expensesSeq = 0
  /\ budgets = {}
  /\ budgetsSeq = 0
  /\ req = [r \in Reqs |-> IdleReq]
  /\ usePostgres = TRUE
  /\ pgPool = 1
  /\ sqliteDb = 0
  /\ engines = 1
  /\ schema = Tables
  /\ disk = NoFile
  /\ call = [c \in Callers |-> NoCall]
  /\ selectedMonth = Jan
  /\ filterCategory = ""
  /\ currentPage = 1
  /\ loading = TRUE
  /\ shownExpenses = <<>>
  /\ shownBudget = 0
  /\ ops = [k \in Ops |-> IF k = 1 THEN LoadOp(Jan, "") ELSE NoOp]

\* monthlyTotal: expenses.reduce((sum, e) => sum + e.amount, 0)
RECURSIVE SumShown(_, _)
SumShown(list, n) == IF n = 0 THEN 0 ELSE SumShown(list, n - 1) + list[n].amount

monthlyTotal == SumShown(shownExpenses, Len(shownExpenses))

\* budgetPercentage > p, where budgetPercentage is
\* budget > 0 ? Math.min((monthlyTotal / budget) * 100, 100) : 0
\* (the minimum of x and 100 is above p when both are).
PercentageAbove(p) ==
  IF shownBudget > 0
    THEN monthlyTotal * 100 > p * shownBudget /\ 100 > p
    ELSE 0 > p

\* The paragraph 'Orcamento ultrapassado em ...' is rendered.
WarningShown == ~loading /\ shownBudget > 0 /\ PercentageAbove(100)

\* Math.ceil(expenses.length / ITEMS_PER_PAGE)
totalPages == (Len(shownExpenses) + ITEMS_PER_PAGE - 1) \div ITEMS_PER_PAGE

startIndex == (currentPage - 1) * ITEMS_PER_PAGE

\* expenses.slice(startIndex, startIndex + ITEMS_PER_PAGE)
paginatedExpenses ==
  LET last == IF startIndex + ITEMS_PER_PAGE < Len(shownExpenses)
                THEN startIndex + ITEMS_PER_PAGE ELSE Len(shownExpenses)
  IN  IF startIndex >= Len(shownExpenses) THEN <<>>
      ELSE SubSeq(shownExpenses, startIndex + 1, last)

Max2(a, b) == IF a > b THEN a ELSE b
Min2(a, b) == IF a < b THEN a ELSE b

\* getPageNumbers: up to five page buttons around the current page.
PageNumbers ==
  LET start0 == Max2(1, currentPage - 2)
      end == Min2(totalPages, start0 + 4)
      start == IF end - start0 + 1 < 5 THEN Max2(1, end - 4) ELSE start0
  IN  start..end

\* The health check of loadData has succeeded: fetchExpenses and fetchBudget
\* are started together.
LoadHealthChecked(k) ==
  /\ ops[k].kind = "load" /\ ops[k].pc = "health"
  /\ ops' = [ops EXCEPT ![k].pc = "fetching"]
  /\ UNCHANGED <<expenses, expensesSeq, budgets, budgetsSeq, req, dbVars,
                 selectedMonth, filterCategory, currentPage, loading, shownExpenses,
                 shownBudget>>

\* loadData: the expense list arrives, setExpenses(data); when the budget
\* has arrived too, Promise.all resolves and setLoading(false).
LoadExpensesArrive(k) ==
  /\ ops[k].kind = "load" /\ ops[k].pc = "fetching" /\ ~ops[k].gotExpenses
  /\ shownExpenses' = ApiExpenses(ops[k].month, ops[k].category)
  /\ IF ops[k].gotBudget
       THEN ops' = [ops EXCEPT ![k] = NoOp] /\ loading' = FALSE
       ELSE ops' = [ops EXCEPT ![k].gotExpenses = TRUE] /\ UNCHANGED loading
  /\ UNCHANGED <<expenses, expensesSeq, budgets, budgetsSeq, req, dbVars,
                 selectedMonth, filterCategory, currentPage, shownBudget>>

\* loadData: the budget arrives, setBudget(data.amount || 0).
LoadBudgetArrive(k) ==
  /\ ops[k].kind = "load" /\ ops[k].pc = "fetching" /\ ~ops[k].gotBudget
  /\ shownBudget' = ApiBudget(ops[k].month)
  /\ IF ops[k].gotExpenses
       THEN ops' = [ops EXCEPT ![k] = NoOp] /\ loading' = FALSE
       ELSE ops' = [ops EXCEPT ![k].gotBudget = TRUE] /\ UNCHANGED loading
  /\ UNCHANGED <<expenses, expensesSeq, budgets, budgetsSeq, req, dbVars,
                 selectedMonth, filterCategory, currentPage, shownExpenses>>

\* The user picks another month: the effects reset the page and start
\* loadData with the new selection.  (The selectors are rendered only while
\* the spinner is not.)
SelectMonth(m) ==
  /\ ~loading
  /\ m # selectedMonth
  /\ HasFreeOp
  /\ selectedMonth' = m
  /\ currentPage' = 1
  /\ loading' = TRUE
  /\ ops' = [ops EXCEPT ![FreeOp] = LoadOp(m, filterCategory)]
  /\ UNCHANGED <<expenses, expensesSeq, budgets, budgetsSeq, req, dbVars,
                 filterCategory, shownExpenses, shownBudget>>

\* The user picks another category filter.
SelectCategory(c) ==
  /\ ~loading
  /\ c # filterCategory
  /\ HasFreeOp
  /\ filterCategory' = c
  /\ currentPage' = 1
  /\ loading' = TRUE
  /\ ops' = [ops EXCEPT ![FreeOp] = LoadOp(selectedMonth, c)]
  /\ UNCHANGED <<expenses, expensesSeq, budgets, budgetsSeq, req, dbVars,
                 selectedMonth, shownExpenses, shownBudget>>

\* The pagination controls are rendered.
PaginationShown == ~loading /\ totalPages > 1

\* The previous-page button (disabled on page 1).
PrevPage ==
  /\ PaginationShown
  /\ currentPage # 1
  /\ currentPage' = Max2(1, currentPage - 1)
  /\ UNCHANGED <<expenses, expensesSeq, budgets, budgetsSeq, req, dbVars,
                 selectedMonth, filterCategory, loading, shownExpenses, shownBudget, ops>>

\* A page-number button.
GoToPage(p) ==
  /\ PaginationShown
  /\ p \in PageNumbers
  /\ p # currentPage
  /\ currentPage' = p
  /\ UNCHANGED <<expenses, expensesSeq, budgets, budgetsSeq, req, dbVars,
                 selectedMonth, filterCategory, loading, shownExpenses, shownBudget, ops>>

\* The next-page button (disabled on the last page).
NextPage ==
  /\ PaginationShown
  /\ currentPage # totalPages
  /\ currentPage' = Min2(totalPages, currentPage + 1)
  /\ UNCHANGED <<expenses, expensesSeq, budgets, budgetsSeq, req, dbVars,
                 selectedMonth, filterCategory, loading, shownExpenses, shownBudget, ops>>

\* handleSubmit refuses the form.
InvalidForm(f) == f.description = "" \/ f.amount = 0 \/ f.amount <= 0

\* handleSubmit for a new expense: the form is checked, the POST is awaited
\* with the modal open (the server inserts the row and answers 201), then
\* the modal closes and fetchExpenses() is started with the selection of
\* this render.  At most cap expenses are created.
HandleSubmit(f, cap) ==
  /\ ~loading
  /\ ~InvalidForm(f)
  /\ ~InvalidExpense(f)
  /\ expensesSeq < cap
  /\ HasFreeOp
  /\ expenses' = expenses \cup {InsertExpenseRow(f)}
  /\ expensesSeq' = expensesSeq + 1
  /\ ops' = [ops EXCEPT ![FreeOp] =
               [NoOp EXCEPT !.kind = "fetchExpenses", !.pc = "fetching",
                            !.month = selectedMonth, !.category = filterCategory]]
  /\ UNCHANGED <<budgets, budgetsSeq, req, dbVars, selectedMonth, filterCategory,
                 currentPage, loading, shownExpenses, shownBudget>>

\* deleteExpense on the i-th row of the page, confirmed: the DELETE is sent
\* and awaited while the page stays in use.
DeleteExpense(i) ==
  /\ ~loading
  /\ i \in 1..Len(paginatedExpenses)
  /\ HasFreeOp
  /\ ops' = [ops EXCEPT ![FreeOp] =
               [NoOp EXCEPT !.kind = "delete", !.pc = "deleting",
                            !.id = paginatedExpenses[i].id,
                            !.month = selectedMonth, !.category = filterCategory]]
  /\ UNCHANGED <<expenses, expensesSeq, budgets, budgetsSeq, req, dbVars,
                 selectedMonth, filterCategory, currentPage, loading, shownExpenses,
                 shownBudget>>

\* The DELETE is answered: 404 ends deleteExpense with a toast; on 200 the
\* row is gone and fetchExpenses() of the render that started the deletion
\* is started.
DeleteDone(k) ==
  /\ ops[k].kind = "delete" /\ ops[k].pc = "deleting"
  /\ IF SelectExpenseById(ops[k].id) = {}
       THEN /\ ops' = [ops EXCEPT ![k] = NoOp]
            /\ UNCHANGED expenses
       ELSE /\ expenses' = DeleteExpenseRows(ops[k].id)
            /\ ops' = [ops EXCEPT ![k].kind = "fetchExpenses", ![k].pc = "fetching"]
  /\ UNCHANGED <<expensesSeq, budgets, budgetsSeq, req, dbVars, selectedMonth,
                 filterCategory, currentPage, loading, shownExpenses, shownBudget>>

\* The list asked for by fetchExpenses() arrives: setExpenses(data).
FetchExpensesArrive(k) ==
  /\ ops[k].kind = "fetchExpenses" /\ ops[k].pc = "fetching"
  /\ shownExpenses' = ApiExpenses(ops[k].month, ops[k].category)
  /\ ops' = [ops EXCEPT ![k] = NoOp]
  /\ UNCHANGED <<expenses, expensesSeq, budgets, budgetsSeq, req, dbVars,
                 selectedMonth, filterCategory, currentPage, loading, shownBudget>>

\* handleBudgetSave: the POST is awaited with the modal open (the server
\* updates the month's row or inserts one), then setBudget(newBudget).
HandleBudgetSave(a) ==
  /\ ~loading
  /\ LET b == [month |-> selectedMonth, amount |-> a]
     IN  IF SelectBudgetByMonth(selectedMonth) # {}
           THEN /\ budgets' = UpdateBudgetRows(selectedMonth, a)
                /\ UNCHANGED budgetsSeq
           ELSE /\ budgets' = budgets \cup {InsertBudgetRow(b)}
                /\ budgetsSeq' = budgetsSeq + 1
  /\ shownBudget' = a
  /\ UNCHANGED <<expenses, expensesSeq, req, dbVars, selectedMonth, filterCategory,
                 currentPage, loading, shownExpenses, ops>>

\* ------------------------------------------------------- specification
\* One step of an expense handler in slot r.
ExpenseStep(r) ==
  \/ \E id \in ExpenseIds : GetExpense(r, id)
  \/ \E b \in ExpenseBodies : PostExpenseBegin(r, b)
  \/ PostExpenseInsert(r)
  \/ PostExpenseSelect(r)
  \/ \E id \in ExpenseIds, b \in ExpenseBodies : PutExpenseCheck(r, id, b)
  \/ PutExpenseUpdate(r)
  \/ PutExpenseSelect(r)
  \/ \E id \in ExpenseIds : DeleteExpenseCheck(r, id)
  \/ DeleteExpenseRun(r)

\* One step of a budget handler in slot r.
BudgetStep(r) ==
  \/ \E m \in Months : GetBudget(r, m)
  \/ \E b \in BudgetBodies : PostBudgetCheck(r, b)
  \/ PostBudgetUpdate(r)
  \/ PostBudgetInsert(r)
  \/ PostBudgetSelect(r)

\* One step of the stats handler in slot r.
StatsStep(r) ==
  \/ \E m \in Months : StatsTotal(r, m)
  \/ StatsBudget(r)
  \/ StatsCategory(r)
  \/ StatsCount(r)

\* One step of a list handler in slot r.
ListStep(r) ==
  \/ \E q \in ExpenseQueries : ListExpenses(r, q)

\* A failure of the persistence layer in slot r.
FaultStep(r) ==
  \/ \E r0 \in FirstQueryRequests : FirstQueryThrows(r, r0)
  \/ StatementThrows(r)

\* One step of any handler in slot r.
HandlerStep(r) ==
  ExpenseStep(r) \/ BudgetStep(r) \/ StatsStep(r) \/ ListStep(r) \/ ListBudgets(r)

\* The server: any handler, any interleaving.
Next == \E r \in Reqs : HandlerStep(r)

Spec == Init /\ [][Next]_vars

\* The expense endpoints alone, requests interleaved.
NextExpenses == \E r \in Reqs : ExpenseStep(r)

SpecExpenses == Init /\ [][NextExpenses]_vars

\* The budget endpoints alone, requests interleaved.
NextBudgets == \E r \in Reqs : BudgetStep(r)

SpecBudgets == Init /\ [][NextBudgets]_vars

\* The stats endpoint interleaved with the requests that write the tables
\* it reads.
NextStats ==
  \E r \in Reqs :
    \/ StatsStep(r)
    \/ \E b \in ExpenseBodies : PostExpenseBegin(r, b)
    \/ PostExpenseInsert(r)
    \/ PostExpenseSelect(r)
    \/ \E id \in ExpenseIds : DeleteExpenseCheck(r, id)
    \/ DeleteExpenseRun(r)
    \/ \E b \in BudgetBodies : PostBudgetCheck(r, b)
    \/ PostBudgetUpdate(r)
    \/ PostBudgetInsert(r)
    \/ PostBudgetSelect(r)

SpecStats == Init /\ [][NextStats]_vars

\* The budget endpoints used by one client that waits for each response
\* before it sends the next request.
NextBudgetsSeq ==
  \E r \in Reqs :
    /\ \A q \in Reqs \ {r} : Free(q)
    /\ BudgetStep(r)

SpecBudgetsSeq == Init /\ [][NextBudgetsSeq]_vars

\* The list endpoint interleaved with the requests that insert and delete
\* expenses.
NextList ==
  \E r \in Reqs :
    \/ ListStep(r)
    \/ \E b \in ExpenseBodies : PostExpenseBegin(r, b)
    \/ PostExpenseInsert(r)
    \/ PostExpenseSelect(r)
    \/ \E id \in ExpenseIds : DeleteExpenseCheck(r, id)
    \/ DeleteExpenseRun(r)

SpecList == Init /\ [][NextList]_vars

\* Every endpoint, with failures of the persistence layer, used by one
\* client that waits for each response before it sends the next request:
\* its requests are handled one after the other in the first slot.
NextFaults == HandlerStep(1) \/ FaultStep(1)

SpecFaults == Init /\ [][NextFaults]_vars

\* One step of the db.js call of caller c.
CallStep(c) ==
  \/ \E op \in {"initDb", "query", "run"}, b \in FullExpenseBodies : InitDbEnter(c, op, b)
  \/ PgCreateExpenses(c)
  \/ PgCreateBudgets(c)
  \/ PgCreateIndexes(c)
  \/ SqliteCreate(c)
  \/ ExecQuery(c)
  \/ ExecRun(c)

\* The persistence shim under its callers: the startup call of initDb and
\* the query() and run() calls of requests, overlapping in any way, on
\* either engine, across restarts of the process.
NextDb == (\E c \in Callers : CallStep(c)) \/ Restart

SpecDb == InitDbLayer /\ [][NextDb]_vars

\* The same, where every call that has been made runs to its end unless the
\* process ends first: the event loop resumes every awaiting call.
SpecDbFair == SpecDb /\ \A c \in Callers : WF_vars(CallStep(c))

\* A step of an asynchronous operation of the dashboard.
OpStep(k) ==
  \/ LoadHealthChecked(k)
  \/ LoadExpensesArrive(k)
  \/ LoadBudgetArrive(k)
  \/ DeleteDone(k)
  \/ FetchExpensesArrive(k)

\* The dashboard used on two months: selections, new expenses, deletions
\* and budgets, with the responses arriving in any order.
NextUi ==
  \/ \E k \in Ops : OpStep(k)
  \/ \E m \in Months : SelectMonth(m)
  \/ \E c \in UiCategories : SelectCategory(c)
  \/ \E f \in UiForms : HandleSubmit(f, MaxExpenseId)
  \/ \E i \in 1..ITEMS_PER_PAGE : DeleteExpense(i)
  \/ \E a \in BudgetInputs : HandleBudgetSave(a)

SpecUi == InitUi /\ [][NextUi]_vars

\* No asynchronous operation of the dashboard is in flight.
Settled == \A k \in Ops : ops[k].kind = "none"

\* The dashboard used on one month with enough expenses for two pages, by a
\* user who waits for the page to settle before the next action: page
\* navigation, filter changes, new expenses and deletions of the first row
\* of the page shown.
NextUiPages ==
  \/ \E k \in Ops : OpStep(k)
  \/ \E c \in UiCategories : Settled /\ SelectCategory(c)
  \/ Settled /\ HandleSubmit(BodyCafe, MaxUiExpenses)
  \/ Settled /\ DeleteExpense(1)
  \/ Settled /\ PrevPage
  \/ \E p \in 1..MaxUiExpenses : Settled /\ GoToPage(p)
  \/ Settled /\ NextPage

SpecUiPages == InitUi /\ [][NextUiPages]_vars

\* ---------------------------------------------------------------- claims
\* Slot r takes a request of kind k in this step.
Arrives(r, k) == Free(r) /\ req'[r] # req[r] /\ req'[r].kind = k

\* Slot r has answered a request of kind k.
Answered(r, k) == req[r].kind = k /\ req[r].pc = "done"

\* The JSON body lacks one of the four expense fields.
MissingExpenseField(b) == \E f \in ExpenseFields : f \notin DOMAIN b

\* All four fields are in the body and none is the empty string or zero.
AllFieldsGiven(b) ==
  /\ ~MissingExpenseField(b)
  /\ b.description # "" /\ b.amount # 0 /\ b.category # "" /\ b.date # <<>>

\* C1: a POST /api/expenses whose four fields are all given is answered with
\* status 201 and a record that carries the body's description, amount,
\* category and date and an id that no other expense row has, whatever other
\* requests are handled at the same time.
C1_PostEchoesBody ==
  \A r \in Reqs :
    (Answered(r, "postExpense") /\ AllFieldsGiven(req[r].body)) =>
      /\ req[r].resp.status = 201
      /\ req[r].resp.body # NoBody
      /\ \A f \in ExpenseFields : req[r].resp.body[f] = req[r].body[f]
      /\ req[r].resp.body.id \in 1..expensesSeq
      /\ Cardinality({e \in expenses : e.id = req[r].resp.body.id}) <= 1
      /\ \A q \in Reqs \ {r} :
           (Answered(q, "postExpense") /\ req[q].resp.status = 201
              /\ req[q].resp.body # NoBody) =>
             req[q].resp.body.id # req[r].resp.body.id

\* C2: a POST /api/expenses whose body lacks one of description, amount,
\* category, date is answered with 400 in the step that receives it, and
\* that step changes neither the expenses nor the budgets table.
C2_PostMissingField400 ==
  [][\A r \in Reqs :
       (Arrives(r, "postExpense") /\ MissingExpenseField(req'[r].body)) =>
         /\ req'[r].pc = "done"
         /\ req'[r].resp.status = 400
         /\ expenses' = expenses
         /\ budgets' = budgets]_vars

C2_Witness ==
  \E r \in Reqs :
    /\ Answered(r, "postExpense")
    /\ MissingExpenseField(req[r].body)
    /\ req[r].resp.status = 400
    /\ expenses # {}

\* C3: a PUT /api/expenses/:id on an existing id (the handler did not
\* answer 404) whose body lacks one of the four fields is answered with 400.
C3_PutMissingField400 ==
  \A r \in Reqs :
    (Answered(r, "putExpense") /\ MissingExpenseField(req[r].body)
       /\ req[r].resp.status # 404) =>
      req[r].resp.status = 400

\* C4: a DELETE /api/expenses/:id whose id is in no row of the expenses table
\* is answered with 404 and leaves the table as it was.
C4_DeleteMissing404 ==
  [][\A r \in Reqs :
       (Arrives(r, "deleteExpense") /\ (\A e \in expenses : e.id # req'[r].id)) =>
         /\ req'[r].pc = "done"
         /\ req'[r].resp.status = 404
         /\ expenses' = expenses]_vars

C4_Witness ==
  \E r \in Reqs :
    /\ Answered(r, "deleteExpense")
    /\ req[r].resp.status = 404
    /\ expenses # {}

\* C5: a GET or PUT /api/expenses/:id is never answered with a success
\* status and no record: when the id identifies no expense the answer is 404.
C5_NoSuccessWithoutRecord ==
  \A r \in Reqs :
    ((Answered(r, "getExpense") \/ Answered(r, "putExpense"))
       /\ req[r].resp.status = 200) =>
      req[r].resp.body # NoBody

\* The expenses whose date falls in month m: year and month number agree.
InMonth(e, m) == Len(e.date) >= 2 /\ e.date[1] = m[1] /\ e.date[2] = m[2]

\* The amount that the row with id i contributes to month m.
AmountIn(i, m) ==
  IF \E e \in expenses : e.id = i /\ InMonth(e, m)
    THEN (CHOOSE e \in expenses : e.id = i /\ InMonth(e, m)).amount
    ELSE 0

\* The sum of amount over the rows of month m with ids 1..n.
RECURSIVE MonthTotalUpTo(_, _)
MonthTotalUpTo(n, m) == IF n = 0 THEN 0 ELSE MonthTotalUpTo(n - 1, m) + AmountIn(n, m)

MonthTotal(m) == MonthTotalUpTo(expensesSeq, m)
MonthCount(m) == Cardinality({e \in expenses : InMonth(e, m)})

\* C6: GET /api/stats/M reads as total the sum of amount over the expenses of
\* month M (0 when there are none) and as count the number of those expenses,
\* each taken from the table as it is when the handler's query runs, and
\* returns exactly these two values for month M.
C6_StatsTotalAndCount ==
  [][\A r \in Reqs :
       /\ Arrives(r, "stats") => req'[r].total = MonthTotal(req'[r].month)
       /\ (req[r].pc = "stats_count" /\ req'[r].pc = "done") =>
            /\ req'[r].resp.status = 200
            /\ req'[r].resp.body.month = req[r].month
            /\ req'[r].resp.body.total = req[r].total
            /\ req'[r].resp.body.count = MonthCount(req[r].month)]_vars

C6_Witness ==
  \E r \in Reqs :
    /\ Answered(r, "stats")
    /\ req[r].resp.body.total = 2
    /\ req[r].resp.body.count = 2
    /\ MonthTotal(req[r].month) = 2
    /\ Cardinality(expenses) = 2
    /\ \E q \in Reqs : Answered(q, "stats") /\ req[q].resp.body.count = 0

\* month and amount are both in the body of a budget upsert.
BudgetGiven(b) == "month" \in DOMAIN b /\ "amount" \in DOMAIN b /\ b.month # <<>>

\* C7: when budget upserts are sent one after the other, every upsert with
\* month and amount succeeds, an upsert of a month that has a row adds no
\* row, and when an upsert is answered the budgets table holds exactly one
\* row for its month, with the amount of this call, and the answer is that row.
C7_UpsertTwice ==
  [][\A r \in Reqs :
       /\ (req'[r].kind = "postBudget" /\ req'[r].pc = "done" /\ BudgetGiven(req'[r].body)) =>
            req'[r].resp.status = 200
       /\ (req[r].pc = "budget_update" /\ req'[r].pc # "budget_update") =>
            Cardinality(budgets') = Cardinality(budgets)
       /\ (req[r].pc = "budget_select" /\ req'[r].pc = "done") =>
            LET rows == {b \in budgets' : b.month = req[r].body.month}
            IN  /\ Cardinality(rows) = 1
                /\ \A b \in rows :
                     /\ b.amount = req[r].body.amount
                     /\ req'[r].resp = [status |-> 200, body |-> b]]_vars

C7_Witness ==
  \E r, q \in Reqs :
    /\ Answered(q, "postBudget") /\ req[q].body = [month |-> Jan, amount |-> 1]
    /\ req[q].resp.status = 200 /\ req[q].resp.body.amount = 1
    /\ Answered(r, "postBudget") /\ req[r].body = [month |-> Jan, amount |-> 2]
    /\ req[r].resp.status = 200 /\ req[r].resp.body.amount = 2
    /\ req[r].resp.body.id = req[q].resp.body.id
    /\ budgets = {req[r].resp.body}

\* C8: the budgets table never holds two rows with the same month.
C8_OneBudgetPerMonth ==
  \A b1, b2 \in budgets : b1.month = b2.month => b1 = b2

C8_Witness ==
  \E r \in Reqs :
    /\ Answered(r, "postBudget")
    /\ req[r].resp.status = 500
    /\ Cardinality({b \in budgets : b.month = req[r].body.month}) = 1

\* C9: a POST /api/budgets with month and amount is always answered with
\* success and the budget row, also when another upsert of the same month is
\* handled at the same time.
C9_UpsertNeverFails ==
  \A r \in Reqs :
    (Answered(r, "postBudget") /\ BudgetGiven(req[r].body)) =>
      /\ req[r].resp.status = 200
      /\ req[r].resp.body # NoBody

\* C10: a GET /api/budgets/:month for a month without a budget row is answered
\* with success and the record {month, amount: 0}, and adds no budget row.
C10_GetBudgetDefault ==
  [][\A r \in Reqs :
       (Arrives(r, "getBudget") /\ (\A b \in budgets : b.month # req'[r].month)) =>
         /\ req'[r].pc = "done"
         /\ req'[r].resp = [status |-> 200,
                            body |-> [month |-> req'[r].month, amount |-> 0]]
         /\ budgets' = budgets]_vars

C10_Witness ==
  \E r \in Reqs :
    /\ Answered(r, "getBudget")
    /\ req[r].resp = [status |-> 200, body |-> [month |-> req[r].month, amount |-> 0]]
    /\ budgets # {}
    /\ \A b \in budgets : b.month # req[r].month

\* The expense e passes the filters of the query q: each filter that is
\* given (sent and not empty) is satisfied.
Matches(e, q) ==
  /\ ("month" \in DOMAIN q /\ q.month # <<>>) => InMonth(e, q.month)
  /\ ("category" \in DOMAIN q /\ q.category # "") => e.category = q.category

\* C11: GET /api/expenses answers 200 with exactly the expenses that pass the
\* month filter and the category filter (each when given), every one once,
\* ordered by date descending and, for equal dates, by id descending.
C11_ListFilteredAndOrdered ==
  [][\A r \in Reqs :
       Arrives(r, "list") =>
         LET q == req'[r].body
             out == req'[r].resp.body
         IN  /\ req'[r].resp.status = 200
             /\ {out[i] : i \in DOMAIN out} = {e \in expenses : Matches(e, q)}
             /\ \A i, j \in DOMAIN out : i # j => out[i] # out[j]
             /\ \A i, j \in DOMAIN out :
                  i < j => \/ out[i].date[1] > out[j].date[1]
                           \/ /\ out[i].date[1] = out[j].date[1]
                              /\ out[i].date[2] > out[j].date[2]
                           \/ /\ out[i].date[1] = out[j].date[1]
                              /\ out[i].date[2] = out[j].date[2]
                              /\ out[i].date[3] > out[j].date[3]
                           \/ /\ out[i].date = out[j].date
                              /\ out[i].id > out[j].id]_vars

\* A list filtered by month answered with one of two stored expenses, and an
\* unfiltered list answered with the older id first because its date is later.
C11_Witness ==
  \E r1, r2 \in Reqs :
    /\ Answered(r1, "list") /\ Answered(r2, "list")
    /\ Cardinality(expenses) = 2
    /\ DOMAIN req[r1].body = {"month"}
    /\ req[r1].body.month = Feb
    /\ Len(req[r1].resp.body) = 1
    /\ req[r1].resp.body[1] \in expenses
    /\ req[r2].body = <<>>
    /\ Len(req[r2].resp.body) = 2
    /\ req[r2].resp.body[1].id < req[r2].resp.body[2].id
    /\ {req[r2].resp.body[1], req[r2].resp.body[2]} = expenses

\* The amount of the expense with id i if it is of month m and category c,
\* else 0.
AmountInCategory(i, m, c) ==
  IF \E e \in expenses : e.id = i /\ InMonth(e, m) /\ e.category = c
    THEN (CHOOSE e \in expenses : e.id = i /\ InMonth(e, m) /\ e.category = c).amount
    ELSE 0

\* The subtotal of category c in month m over the rows with ids 1..n.
RECURSIVE SubtotalUpTo(_, _, _)
SubtotalUpTo(n, m, c) ==
  IF n = 0 THEN 0 ELSE SubtotalUpTo(n - 1, m, c) + AmountInCategory(n, m, c)

\* The categories that have an expense in month m.
CategoriesIn(m) == {e.category : e \in {x \in expenses : InMonth(x, m)}}

\* C12: GET /api/stats/M reads as budget the amount of the budget row of
\* month M (0 when there is none) and as byCategory one entry for each
\* category with an expense in month M and for no other, each with that
\* category's subtotal, entries with larger subtotals first; the response
\* returns exactly these two values.
C12_StatsBudgetAndCategories ==
  [][\A r \in Reqs :
       /\ (req[r].pc = "stats_budget" /\ req'[r] # req[r]) =>
            req'[r].budget =
              IF \E b \in budgets : b.month = req[r].month
                THEN (CHOOSE b \in budgets : b.month = req[r].month).amount
                ELSE 0
       /\ (req[r].pc = "stats_category" /\ req'[r] # req[r]) =>
            LET s == req'[r].byCategory
                m == req[r].month
            IN  /\ {s[i].category : i \in DOMAIN s} = CategoriesIn(m)
                /\ \A i, j \in DOMAIN s : i # j => s[i].category # s[j].category
                /\ \A i \in DOMAIN s :
                     s[i].total = SubtotalUpTo(expensesSeq, m, s[i].category)
                /\ \A i, j \in DOMAIN s : i < j => s[i].total >= s[j].total
       /\ (req[r].pc = "stats_count" /\ req'[r].pc = "done") =>
            /\ req'[r].resp.status = 200
            /\ req'[r].resp.body.budget = req[r].budget
            /\ req'[r].resp.body.byCategory = req[r].byCategory]_vars

\* A stats response with a budget and two categories, the larger subtotal
\* first, for a month whose table still holds what the handler read.
C12_Witness ==
  \E r \in Reqs :
    /\ Answered(r, "stats")
    /\ req[r].resp.status = 200
    /\ req[r].resp.body.budget > 0
    /\ \E b \in budgets : b.month = req[r].month /\ b.amount = req[r].resp.body.budget
    /\ Len(req[r].resp.body.byCategory) = 2
    /\ req[r].resp.body.byCategory[1].total > req[r].resp.body.byCategory[2].total
    /\ Cardinality(CategoriesIn(req[r].month)) = 2

\* C13: no step of a GET /api/stats handler changes the expenses table or
\* the budgets table (or their id generators): the tables after the step are
\* the tables before it.
C13_StatsReadOnly ==
  [][(\E r \in Reqs : req'[r] # req[r] /\ req'[r].kind = "stats") =>
       /\ expenses' = expenses
       /\ budgets' = budgets
       /\ expensesSeq' = expensesSeq
       /\ budgetsSeq' = budgetsSeq]_vars

\* A stats request answered on tables that hold expenses and a budget, for a
\* month that has expenses but no budget row.
C13_Witness ==
  \E r \in Reqs :
    /\ Answered(r, "stats")
    /\ req[r].resp.body.count > 0
    /\ req[r].resp.body.budget = 0
    /\ budgets # {}
    /\ \A b \in budgets : b.month # req[r].month

\* C14: a request in whose handling the persistence layer threw has been
\* answered, with status 500 and a body carrying the message of the error
\* thrown; it is never in flight or unanswered, and never has another status.
C14_PersistenceErrorIs500 ==
  \A r \in Reqs :
    req[r].error # "" =>
      /\ req[r].pc = "done"
      /\ req[r].resp.status = 500
      /\ req[r].resp.body = [error |-> req[r].error]

\* A POST /api/expenses whose awaited INSERT or read-back was rejected by the
\* driver, answered 500 with the driver's message.
C14_Witness ==
  \E r \in Reqs :
    /\ Answered(r, "postExpense")
    /\ req[r].error = DriverError
    /\ req[r].resp = [status |-> 500, body |-> [error |-> DriverError]]

\* C18: a request has at most one response; it has exactly one when its
\* handler has ended and none while the handler is in flight, and a handler
\* in flight always has a next step (it cannot end without responding).
C18_ExactlyOneResponse ==
  \A r \in Reqs :
    /\ req[r].responses <= 1
    /\ req[r].pc = "done" <=> req[r].responses = 1
    /\ req[r].pc \notin {"idle", "done"} => ENABLED HandlerStep(r)

\* A DELETE of an id that has no row, ended on the not-found path with its
\* one response.
C18_Witness ==
  \E r \in Reqs :
    /\ Answered(r, "deleteExpense")
    /\ req[r].resp.status = 404
    /\ req[r].responses = 1
    /\ req[r].error = ""

\* C17: a PUT /api/expenses/:id that found its id and whose body holds all
\* four fields is answered 200 with the stored row of that id, the row's four
\* fields being those of the body; and no step of a PUT changes the budgets
\* table, the set of expense ids, the created_at of any row, or any field of
\* a row with another id.
C17_PutUpdatesOnlyThatRow ==
  [][\A r \in Reqs :
       (req'[r] # req[r] /\ req'[r].kind = "putExpense") =>
         /\ budgets' = budgets /\ budgetsSeq' = budgetsSeq
         /\ expensesSeq' = expensesSeq
         /\ {e.id : e \in expenses'} = {e.id : e \in expenses}
         /\ \A e \in expenses : e.id # req'[r].id => e \in expenses'
         /\ \A e \in expenses, f \in expenses' : f.id = e.id => f.created_at = e.created_at
         /\ (req[r].pc = "put_select" /\ ~MissingExpenseField(req[r].body)) =>
              /\ req'[r].resp.status = 200
              /\ \E e \in expenses :
                   /\ e.id = req[r].id
                   /\ req'[r].resp.body = e
                   /\ e.description = req[r].body.description
                   /\ e.amount = req[r].body.amount
                   /\ e.category = req[r].body.category
                   /\ e.date = req[r].body.date]_vars

\* Caller c has a run() that returned normally.
RunCompleted(c) == call[c].op = "run" /\ call[c].pc = "done" /\ call[c].error = ""

\* C15: on the embedded engine, once the Database exists the flat file holds
\* exactly the in-memory database: the same expense rows, the same budget
\* rows, the same id generators.  (run() executes its statement and saveDb
\* in one synchronous run, so every state is one where no run() is
\* executing.)
C15_FileEqualsMemory ==
  (~usePostgres /\ sqliteDb # 0) =>
    /\ disk.exists
    /\ disk.expenses = expenses
    /\ disk.expensesSeq = expensesSeq
    /\ disk.budgets = budgets
    /\ disk.budgetsSeq = budgetsSeq

\* On the embedded engine two run() calls have returned and the file holds
\* the two rows they inserted.
C15_Witness ==
  /\ ~usePostgres
  /\ sqliteDb # 0
  /\ \E c, d \in Callers : c # d /\ RunCompleted(c) /\ RunCompleted(d)
  /\ Cardinality(disk.expenses) = 2
  /\ expensesSeq = 2

\* The row that the completed run() of caller c inserted is not in the file.
WriteLost(c) ==
  /\ RunCompleted(c)
  /\ \A e \in disk.expenses : e.id # call[c].lastId

\* On the embedded engine two Database objects were created by overlapping
\* initDb calls and two run() calls of this process have returned.
OverlappingWritersDone ==
  /\ ~usePostgres
  /\ engines >= 2
  /\ \E c, d \in Callers : c # d /\ RunCompleted(c) /\ RunCompleted(d)

C19_StatementAfterTables ==
  [][\A c \in Callers :
       (call[c].pc = "stmt" /\ call'[c].pc = "done") => Tables \subseteq schema]_vars

\* C20: a process creates at most one engine object (Pool or Database).
C20_OneEngine == engines <= 1

\* The sum of the totals of the entries 1..n of a byCategory list.
RECURSIVE SumTotals(_, _)
SumTotals(s, n) == IF n = 0 THEN 0 ELSE SumTotals(s, n - 1) + s[n].total

\* C21: in every answered GET /api/stats response the totals of byCategory
\* add up to total, and count is 0 exactly when byCategory is empty.
C21_StatsFieldsConsistent ==
  \A r \in Reqs :
    (Answered(r, "stats") /\ req[r].resp.status = 200) =>
      LET b == req[r].resp.body
      IN  /\ SumTotals(b.byCategory, Len(b.byCategory)) = b.total
          /\ (b.count = 0) <=> (Len(b.byCategory) = 0)

\* C22: when no fetch of the dashboard is outstanding, the list shown is the
\* server's list for the selected month and category filter, and the budget
\* shown is the server's budget of the selected month.
C22_ShownIsCurrentSelection ==
  (Settled /\ ~loading) =>
    /\ shownExpenses = ApiExpenses(selectedMonth, filterCategory)
    /\ shownBudget = ApiBudget(selectedMonth)

\* C23: currentPage is within 1..max(1, totalPages), and the page of the list
\* is not empty when the list is not.
C23_PageInRange ==
  /\ currentPage >= 1
  /\ currentPage <= Max2(1, totalPages)
  /\ shownExpenses # <<>> => paginatedExpenses # <<>>

\* C24: with the page rendered, the over-budget warning is shown exactly
\* when a budget above 0 is set and the total of the expenses shown exceeds
\* it.
C24_WarningWhenOverBudget ==
  ~loading => (WarningShown <=> (shownBudget > 0 /\ monthlyTotal > shownBudget))

====
